---- MODULE Spec2Model ----
(***************************************************************************)
(* Model of antispoofing/lbptop/script/lbptop_calculate_parameters.py:     *)
(* main() walks the list of videos, and for each one runs the sliding      *)
(* window over the frame indices, accumulates one histogram row per plane  *)
(* (XY, XT, YT) and frame, pads the matrices with NaN rows and saves them. *)
(*                                                                         *)
(* A histogram row is a sequence of blocks; a block stands for n           *)
(* consecutive columns holding the histogram of one plane of one frame of  *)
(* one video at one temporal radius (or n zeros, or n NaNs).  A matrix is  *)
(* its column count w (numpy's shape[1]) and its sequence of rows.         *)
(* Frame indices and the task id are 0-based / as in the source; TLA+      *)
(* sequences are 1-based, so matrix row k of the source is rows[k + 1].    *)
(***************************************************************************)
EXTENDS Integers, Sequences, FiniteSets, TLC

\* ---- bounds of the model ------------------------------------------------
MaxVideos == 2
MaxFrames == 5
MaxRT == 2
MaxRadii == 2
MaxSpatialRadius == 2

VARIABLES
    lbptypeXY, lbptypeXT, lbptypeYT,  \* args.lbptypeXY / XT / YT
    rX, rY, rT,                       \* args.rX, args.rY, args.rT (a list)
    all_planes,                       \* args.all_planes
    nVideos,                          \* len of the list the database returns
    taskId,                           \* int(os.environ['SGE_TASK_ID']), 0 = not read
    grid,                             \* args.grid
    process,                          \* the list of videos to process
    index,                            \* enumerate() position, 0-based
    pc,                               \* position of main()
    err,                              \* the exception that ended main(), if any
    nFrames,                          \* vin.shape[0] of the current video
    i,                                \* cursor of the sliding-window loop
    visited,                          \* history: loop indices of the current video
    histLocalVolumeXY, histLocalVolumeXT, histLocalVolumeYT,
    histVolumeXY, histVolumeXT, histVolumeYT,
    saved                             \* what obj.save has written, in order

cfg == <<lbptypeXY, lbptypeXT, lbptypeYT, rX, rY, rT, all_planes, nVideos>>
loc == <<histLocalVolumeXY, histLocalVolumeXT, histLocalVolumeYT>>
vol == <<histVolumeXY, histVolumeXT, histVolumeYT>>
vars == <<cfg, taskId, grid, process, index, pc, err, nFrames, i, visited,
          loc, vol, saved>>

\* ---- helpers --------------------------------------------------------------
lbptype == {"regular", "riu2", "uniform"}

lbphistlength == [t \in lbptype |->
                    IF t = "regular" THEN 256 ELSE IF t = "riu2" THEN 10 ELSE 59]

Max(S) == CHOOSE x \in S : \A y \in S : y <= x

Min(S) == CHOOSE x \in S : \A y \in S : x <= y

Range(s) == {s[k] : k \in 1..Len(s)}

Max3(a, b, c) == Max({a, b, c})

maxRadius == Max(Range(rT))

None == <<>>

Block(n, plane, obj, frame, r) ==
    [n |-> n, plane |-> plane, obj |-> obj, frame |-> frame, r |-> r]

RECURSIVE Width(_)
Width(row) == IF row = <<>> THEN 0 ELSE row[1].n + Width(Tail(row))

Zeros(w) == <<Block(w, "zero", 0, -1, -1)>>

Ones(w) == <<Block(w, "one", 0, -1, -1)>>

NaNs(w) == <<Block(w, "nan", 0, -1, -1)>>

EmptyMatrix == [w |-> 0, rows |-> <<>>]

\* numpy.zeros(shape=(n, w))
numpy_zeros(n, w) == [w |-> w, rows |-> [k \in 1..n |-> Zeros(w)]]

\* the video being processed
obj == process[index + 1]


\* ---- the per-frame computation (lines 250-282) ----------------------------
\* range(i - maxLocalRadius, i + 1 + maxLocalRadius)
rangeValues(ii, maxLocalRadius) ==
    [k \in 1..(2 * maxLocalRadius + 1) |-> ii - maxLocalRadius + k - 1]

maxLocalRadius(r) == Max3(rX, rY, r)

InVideo(frames) == \A k \in 1..Len(frames) : frames[k] >= 0 /\ frames[k] < nFrames

\* spoof.getNormFacesFromRange: the normalised faces of the frames selected
getNormFacesFromRange(frames) == [obj |-> obj, frames |-> frames]

Center(frames) == frames[(Len(frames) + 1) \div 2]

\* spoof.lbptophist: one histogram per plane for the volume's centre frame;
\* XY uses the spatial radii only, XT and YT the temporal radius r as well
lbptophist(volume, r) ==
    [XY |-> <<Block(lbphistlength[lbptypeXY], "XY", volume.obj, Center(volume.frames), -1)>>,
     XT |-> <<Block(lbphistlength[lbptypeXT], "XT", volume.obj, Center(volume.frames), r)>>,
     YT |-> <<Block(lbphistlength[lbptypeYT], "YT", volume.obj, Center(volume.frames), r)>>]

\* numpy.concatenate((a, b), axis=1) of two one-row arrays
ConcatenateSwapped(a, b) == b \o a

ConcatenateAxis1(a, b) == a \o b

\* lines 270-277 for the XT and YT planes
AccumulateT(acc, hist) == IF acc = None THEN hist ELSE ConcatenateAxis1(acc, hist)

AccumulateXYConcat(acc, hist) == IF acc = None THEN hist ELSE ConcatenateAxis1(acc, hist)

\* lines 270-271 for the XY plane: kept from the first radius only
AccumulateXY(acc, hist) == IF acc = None THEN hist ELSE acc

\* the body of "for r in rT" run for the first m radii of the list
RECURSIVE LocalHists(_, _)
LocalHists(ii, m) ==
    IF m = 0
    THEN [XY |-> None, XT |-> None, YT |-> None]
    ELSE LET acc == LocalHists(ii, m - 1)
             r == rT[m]
             h == lbptophist(getNormFacesFromRange(rangeValues(ii, maxLocalRadius(r))), r)
         IN  [XY |-> AccumulateXY(acc.XY, h.XY),
              XT |-> AccumulateT(acc.XT, h.XT),
              YT |-> AccumulateT(acc.YT, h.YT)]

\* positions of rT whose volume reaches outside the video
OutOfVideo(ii) ==
    {m \in 1..Len(rT) : ~InVideo(rangeValues(ii, maxLocalRadius(rT[m])))}

\* histVolume[k, :] = row
CanStore(M, k, row) ==
    /\ k >= 0 /\ k < Len(M.rows)
    /\ (Width(row) = M.w \/ Width(row) = 1)

SetRow(M, k, row) == [M EXCEPT !.rows[k + 1] = row]

\* ---- the per-video bookkeeping (lines 245-250, 287-318) -------------------
n_histograms_short == nFrames - maxRadius

n_histograms == nFrames - 2 * maxRadius

LoopEndShort == nFrames - maxRadius - 1

\* the end of range(maxRadius, nFrames - maxRadius)
LoopEnd == nFrames - maxRadius

\* the row written for loop index ii
RowOf(ii) == ii - maxRadius

nanParametersOnes(n, w) == [w |-> w, rows |-> [k \in 1..n |-> Ones(w)]]

\* numpy.ones(shape=(maxrT, w)) * numpy.NaN
nanParameters(n, w) == [w |-> w, rows |-> [k \in 1..n |-> NaNs(w)]]

\* numpy.concatenate((A, B), axis=0)
ConcatenateAxis0(A, B) == [w |-> A.w, rows |-> A.rows \o B.rows]

\* lines 287-300
Padded(M) ==
    LET nan == nanParameters(Max(Range(rT)), M.w)
    IN  ConcatenateAxis0(ConcatenateAxis0(nan, M), nan)

\* numpy.hstack of matrices with the same number of rows
hstack2(A, B) ==
    [w |-> A.w + B.w, rows |-> [k \in 1..Len(A.rows) |-> A.rows[k] \o B.rows[k]]]

hstack3(A, B, C) == hstack2(hstack2(A, B), C)

OutputsAlways5 ==
    <<[dir |-> "XY", m |-> histVolumeXY],
      [dir |-> "XT", m |-> histVolumeXT],
      [dir |-> "YT", m |-> histVolumeYT],
      [dir |-> "XT_YT", m |-> hstack2(histVolumeXT, histVolumeYT)],
      [dir |-> "XY_XT_YT", m |-> hstack3(histVolumeXY, histVolumeXT, histVolumeYT)]>>

\* lines 306-318: the matrices handed to obj.save, in order
Outputs ==
    IF all_planes
    THEN <<[dir |-> "XY", m |-> histVolumeXY],
           [dir |-> "XT", m |-> histVolumeXT],
           [dir |-> "YT", m |-> histVolumeYT],
           [dir |-> "XT_YT", m |-> hstack2(histVolumeXT, histVolumeYT)],
           [dir |-> "XY_XT_YT", m |-> hstack3(histVolumeXY, histVolumeXT, histVolumeYT)]>>
    ELSE <<[dir |-> "", m |-> hstack3(histVolumeXY, histVolumeXT, histVolumeYT)]>>

\* obj.save(m, directory=..., extension='.hdf5'): the file's owner, place, shape
SavedFile(o) == [obj |-> obj, dir |-> o.dir, shape |-> <<Len(o.m.rows), o.m.w>>]

\* ---- control -------------------------------------------------------------
\* an exception skipped over by a per-video handler
RaiseAndContinue(kind) ==
    /\ err' = kind
    /\ index' = IF pc = "start" THEN index ELSE index + 1
    /\ pc' = IF pc = "start" THEN "error"
             ELSE IF index + 1 < Len(process) THEN "load" ELSE "finished"

\* an exception: nothing in main() catches it, so it ends the program
Raise(kind) ==
    /\ err' = kind
    /\ index' = index
    /\ pc' = "error"

\* process[key] with Python's negative indices
PyIndexable(s, key) == key >= -Len(s) /\ key < Len(s)

PyIndex(s, key) == IF key >= 0 THEN s[key + 1] ELSE s[Len(s) + key + 1]

\* the -lXY/-lXT/-lYT choices explored: the default, and every type on every plane
LbpTypeTriples ==
    {<<"uniform", "uniform", "uniform">>, <<"regular", "riu2", "uniform">>,
     <<"riu2", "uniform", "regular">>, <<"uniform", "regular", "riu2">>}

TaskIds == (-(MaxVideos + 1))..(MaxVideos + 1)

Init ==
    /\ \E t \in LbpTypeTriples :
        lbptypeXY = t[1] /\ lbptypeXT = t[2] /\ lbptypeYT = t[3]
    /\ rX \in 1..MaxSpatialRadius /\ rY \in 1..MaxSpatialRadius
    /\ rT \in UNION {[1..n -> 1..MaxRT] : n \in 1..MaxRadii}
    /\ all_planes \in BOOLEAN
    /\ nVideos \in 1..MaxVideos
    /\ process = [k \in 1..nVideos |-> k]
    /\ taskId = 0 /\ grid = FALSE
    /\ index = 0 /\ pc = "start" /\ err = "none"
    /\ nFrames = 0 /\ i = 0 /\ visited = <<>>
    /\ histLocalVolumeXY = None /\ histLocalVolumeXT = None /\ histLocalVolumeYT = None
    /\ histVolumeXY = EmptyMatrix /\ histVolumeXT = EmptyMatrix /\ histVolumeYT = EmptyMatrix
    /\ saved = <<>>

\* lines 183-185: --grid-count prints the number of videos and exits
GridCount ==
    /\ pc = "start"
    /\ pc' = "exit"
    /\ UNCHANGED <<cfg, taskId, grid, process, index, err, nFrames, i, visited, loc, vol, saved>>

\* lines 188-193 with args.grid set
GridSelect ==
    /\ pc = "start"
    /\ \E k \in TaskIds :
        LET key == k - 1 IN
        /\ taskId' = k
        /\ grid' = TRUE
        /\ IF key >= Len(process)
           THEN Raise("RuntimeError") /\ process' = process
           ELSE IF ~PyIndexable(process, key)
           THEN Raise("IndexError_grid") /\ process' = process
           ELSE /\ process' = <<PyIndex(process, key)>>
                /\ pc' = "load"
                /\ UNCHANGED <<index, err>>
    /\ UNCHANGED <<cfg, nFrames, i, visited, loc, vol, saved>>

\* lines 188-193 with args.grid not set
NoGrid ==
    /\ pc = "start"
    /\ pc' = "load"
    /\ UNCHANGED <<cfg, taskId, grid, process, index, err, nFrames, i, visited, loc, vol, saved>>

\* lines 201-241: open the video, read the face locations, load the frames
Load ==
    /\ pc = "load"
    /\ \E ok \in BOOLEAN :
        IF ok
        THEN /\ \E n \in 1..MaxFrames : nFrames' = n
             /\ pc' = "alloc"
             /\ UNCHANGED <<index, err>>
        ELSE /\ Raise("IOError")
             /\ nFrames' = nFrames
    /\ UNCHANGED <<cfg, taskId, grid, process, i, visited, loc, vol, saved>>

\* lines 245-248 and the start of the loop of line 250
Alloc ==
    /\ pc = "alloc"
    /\ IF n_histograms < 0
       THEN /\ Raise("ValueError_zeros")
            /\ UNCHANGED <<i, visited, vol>>
       ELSE /\ histVolumeXY' = numpy_zeros(n_histograms, lbphistlength[lbptypeXY])
            /\ histVolumeXT' = numpy_zeros(n_histograms, lbphistlength[lbptypeXT])
            /\ histVolumeYT' = numpy_zeros(n_histograms, lbphistlength[lbptypeYT])
            /\ i' = maxRadius
            /\ visited' = <<>>
            /\ pc' = "loop"
            /\ UNCHANGED <<index, err>>
    /\ UNCHANGED <<cfg, taskId, grid, process, nFrames, loc, saved>>

\* lines 250-282: one iteration of the sliding-window loop
LoopStep ==
    /\ pc = "loop"
    /\ i < LoopEnd
    /\ visited' = Append(visited, i)
    /\ \E strict \in BOOLEAN :
        IF strict /\ OutOfVideo(i) # {}
        THEN \* the volume cannot be taken: the exception leaves the radius loop
             LET h == LocalHists(i, Min(OutOfVideo(i)) - 1) IN
             /\ histLocalVolumeXY' = h.XY
             /\ histLocalVolumeXT' = h.XT
             /\ histLocalVolumeYT' = h.YT
             /\ Raise("IndexError_volume")
             /\ UNCHANGED <<i, vol>>
        ELSE LET h == LocalHists(i, Len(rT))
                 k == RowOf(i)
             IN
             /\ histLocalVolumeXY' = h.XY
             /\ histLocalVolumeXT' = h.XT
             /\ histLocalVolumeYT' = h.YT
             /\ IF ~CanStore(histVolumeXY, k, h.XY)
                THEN Raise("ValueError_store") /\ UNCHANGED <<i, vol>>
                ELSE IF ~CanStore(histVolumeXT, k, h.XT)
                THEN /\ Raise("ValueError_store")
                     /\ histVolumeXY' = SetRow(histVolumeXY, k, h.XY)
                     /\ UNCHANGED <<i, histVolumeXT, histVolumeYT>>
                ELSE IF ~CanStore(histVolumeYT, k, h.YT)
                THEN /\ Raise("ValueError_store")
                     /\ histVolumeXY' = SetRow(histVolumeXY, k, h.XY)
                     /\ histVolumeXT' = SetRow(histVolumeXT, k, h.XT)
                     /\ UNCHANGED <<i, histVolumeYT>>
                ELSE /\ histVolumeXY' = SetRow(histVolumeXY, k, h.XY)
                     /\ histVolumeXT' = SetRow(histVolumeXT, k, h.XT)
                     /\ histVolumeYT' = SetRow(histVolumeYT, k, h.YT)
                     /\ i' = i + 1
                     /\ UNCHANGED <<pc, index, err>>
    /\ UNCHANGED <<cfg, taskId, grid, process, nFrames, saved>>

\* lines 284-303: the loop is over; NaN rows go before and after each matrix
Pad ==
    /\ pc = "loop"
    /\ ~(i < LoopEnd)
    /\ histVolumeXY' = Padded(histVolumeXY)
    /\ histVolumeXT' = Padded(histVolumeXT)
    /\ histVolumeYT' = Padded(histVolumeYT)
    /\ pc' = "breakpoint"
    /\ UNCHANGED <<cfg, taskId, grid, process, index, err, nFrames, i, visited, loc, saved>>

\* line 304: ipdb.set_trace(), left by continuing
Breakpoint ==
    /\ pc = "breakpoint"
    /\ pc' = "save"
    /\ UNCHANGED <<cfg, taskId, grid, process, index, err, nFrames, i, visited, loc, vol, saved>>

\* lines 306-318, and the step of "for index, obj in enumerate(process)"
Save ==
    /\ pc = "save"
    /\ saved' = saved \o [k \in 1..Len(Outputs) |-> SavedFile(Outputs[k])]
    /\ index' = index + 1
    /\ pc' = IF index + 1 < Len(process) THEN "load" ELSE "finished"
    /\ UNCHANGED <<cfg, taskId, grid, process, err, nFrames, i, visited, loc, vol>>

Next ==
    \/ GridCount
    \/ GridSelect
    \/ NoGrid
    \/ Load
    \/ Alloc
    \/ LoopStep
    \/ Pad
    \/ Breakpoint
    \/ Save

Spec == Init /\ [][Next]_vars

\* ---- properties ----------------------------------------------------------
Interior == maxRadius..(nFrames - maxRadius - 1)

IntervalSeq(a, b) == [k \in 1..(b - a + 1) |-> a + k - 1]

Matrices == {histVolumeXY, histVolumeXT, histVolumeYT}

AllOutputs == {Outputs[k].m : k \in 1..Len(Outputs)}

IsNaNRow(row, w) == Width(row) = w /\ \A b \in 1..Len(row) : row[b].plane = "nan"

IsZeroRow(row, w) == Width(row) = w /\ \A b \in 1..Len(row) : row[b].plane = "zero"

\* every column of the row comes from frame f of video o
IsRowOfFrame(row, w, o, f) ==
    /\ Width(row) = w
    /\ \A b \in 1..Len(row) :
        row[b].obj = o /\ row[b].frame = f /\ row[b].plane \in {"XY", "XT", "YT"}

PerVideoErrors == {"IOError", "ValueError_zeros", "ValueError_store", "IndexError_volume"}

GridErrors == {"RuntimeError", "IndexError_grid"}

\* C1: every XT and YT row has length binCount * (number of temporal radii) and
\* every XY row length binCount, and the concatenated per-frame row is stored
\* into its matrix without a shape error, also for several radii.
C1_RowLengths ==
    /\ pc \in {"loop", "breakpoint", "save"} =>
        /\ histVolumeXY.w = lbphistlength[lbptypeXY]
        /\ histVolumeXT.w = lbphistlength[lbptypeXT] * Len(rT)
        /\ histVolumeYT.w = lbphistlength[lbptypeYT] * Len(rT)
    /\ err # "ValueError_store"

\* C2: once the loop and the NaN padding of a video are complete, each of its
\* matrices (XY, XT, YT and the combinations saved) has nFrames rows.
C2_RowsEqualFrameCount ==
    pc \in {"breakpoint", "save"} =>
        /\ \A M \in Matrices \cup AllOutputs : Len(M.rows) = nFrames
        /\ \A M \in Matrices \cup AllOutputs :
             \A k \in 1..Len(M.rows) : Width(M.rows[k]) = M.w

C2_Witness ==
    /\ pc = "save" /\ nFrames = 5 /\ maxRadius = 2
    /\ Len(histVolumeXT.rows) = 5

\* C3: in every output matrix the first maxRadius rows and the last maxRadius
\* rows are NaN in every column.
C3_NaNBorders ==
    pc \in {"breakpoint", "save"} =>
        \A M \in Matrices \cup AllOutputs :
            /\ Len(M.rows) >= 2 * maxRadius
            /\ \A k \in 1..maxRadius :
                /\ IsNaNRow(M.rows[k], M.w)
                /\ IsNaNRow(M.rows[Len(M.rows) - k + 1], M.w)

C3_Witness ==
    /\ pc = "save" /\ all_planes /\ maxRadius = 2 /\ nFrames = 5
    /\ IsNaNRow(Outputs[5].m.rows[2], Outputs[5].m.w)
    /\ ~IsNaNRow(Outputs[5].m.rows[3], Outputs[5].m.w)

\* C4 as claimed: the radii are processed in ascending order whatever the order
\* they were supplied in, so the per-frame XT and YT rows are ordered by
\* increasing radius.
C4_AscendingOrder ==
    /\ \A k \in 1..(Len(histLocalVolumeXT) - 1) :
         histLocalVolumeXT[k].r <= histLocalVolumeXT[k + 1].r
    /\ \A k \in 1..(Len(histLocalVolumeYT) - 1) :
         histLocalVolumeYT[k].r <= histLocalVolumeYT[k + 1].r

\* C4 as amended: the radii are processed in the order they were supplied in,
\* so the per-frame XT and YT rows are the per-radius histograms of that frame
\* in the order of rT.
C4_SuppliedOrder ==
    /\ Len(histLocalVolumeXT) <= Len(rT)
    /\ Len(histLocalVolumeYT) = Len(histLocalVolumeXT)
    /\ \A k \in 1..Len(histLocalVolumeXT) :
        /\ histLocalVolumeXT[k].r = rT[k]
        /\ histLocalVolumeXT[k].plane = "XT"
        /\ histLocalVolumeXT[k].n = lbphistlength[lbptypeXT]
        /\ histLocalVolumeYT[k].r = rT[k]
        /\ histLocalVolumeYT[k].plane = "YT"
        /\ histLocalVolumeYT[k].n = lbphistlength[lbptypeYT]
        /\ histLocalVolumeXT[k].frame = histLocalVolumeXT[1].frame
        /\ histLocalVolumeYT[k].frame = histLocalVolumeXT[1].frame
    /\ (pc = "loop" /\ visited # <<>>) => Len(histLocalVolumeXT) = Len(rT)

C4_Witness ==
    /\ rT = <<2, 1>>
    /\ Len(histLocalVolumeXT) = 2
    /\ histLocalVolumeXT[1].r = 2 /\ histLocalVolumeXT[2].r = 1

\* the XY histogram of frame f of video o: no temporal radius enters it
XYHistOf(o, f) == <<Block(lbphistlength[lbptypeXY], "XY", o, f, -1)>>

FilesOf(p) ==
    IF all_planes THEN SubSeq(saved, 5 * (p - 1) + 1, 5 * p) ELSE SubSeq(saved, p, p)

SavedVideos == {saved[k].obj : k \in 1..Len(saved)}

C8_LoopInvariant ==
    /\ pc = "loop" =>
        /\ i >= maxRadius /\ i <= LoopEnd
        /\ visited = IntervalSeq(maxRadius, i - 1)
        /\ \A M \in Matrices :
            /\ Len(M.rows) = n_histograms
            /\ \A k \in 1..Len(M.rows) :
                IF k <= Len(visited)
                THEN IsRowOfFrame(M.rows[k], M.w, obj, visited[k])
                ELSE IsZeroRow(M.rows[k], M.w)
    /\ pc \in {"breakpoint", "save"} =>
        /\ visited = IntervalSeq(maxRadius, nFrames - maxRadius - 1)
        /\ \A M \in Matrices \cup AllOutputs :
             \A f \in Interior : IsRowOfFrame(M.rows[f + 1], M.w, obj, f)

C8_SlidingWindow ==
    /\ []C8_LoopInvariant
    /\ [][(pc = "loop" /\ pc' = "loop") => (i' = i + 1 /\ visited' = Append(visited, i))]_vars
    /\ [][(pc = "loop" /\ pc' = "breakpoint") => i = LoopEnd]_vars

C8_Witness ==
    /\ pc = "save" /\ index = 1 /\ visited = <<1, 2, 3>>
    /\ IsRowOfFrame(histVolumeXT.rows[4], histVolumeXT.w, 2, 3)

\* C9: in grid mode either 1 <= k <= n and exactly the video at position k - 1
\* is processed, or an error is raised and no video is processed.
C9_GridSelectsOrFails ==
    grid =>
        IF taskId >= 1 /\ taskId <= nVideos
        THEN process = <<taskId>>
        ELSE pc = "error" /\ err \in GridErrors /\ saved = <<>>

\* C10: for every loop index and every temporal radius, every frame index of
\* the local volume lies in [0, nFrames), whatever the spatial radii.
C10_VolumeInsideVideo ==
    (pc = "loop" /\ i < LoopEnd) => OutOfVideo(i) = {}

====
